---- MODULE Spec2Model ----
(***************************************************************************)
(* Campaign message dispatch and delivery-state reconciliation.            *)
(*                                                                         *)
(* One campaign of the campaigns route (start / pause / resume / resend /  *)
(* retry-failed and the detached processCampaignMessages loop), the send   *)
(* helper sendCampaignMessage of the WhatsApp client, and the webhook      *)
(* service (processStatusUpdate, updateCampaignStats), all acting on the   *)
(* same store.                                                             *)
(*                                                                         *)
(* A route handler is one step; a request the route rejects changes        *)
(* nothing, and what the route answers is the `error` of its ...Result.    *)
(* The detached loop is a process: it has a position (pc), and an await    *)
(* at which another handler can run between a read of the store and the    *)
(* write that depends on it is a step border.                              *)
(***************************************************************************)
EXTENDS Integers, Sequences, FiniteSets

\* ------------------------------------------------------------------ bounds

NumLeads == 2        \* leads in the store, ids 1..NumLeads
MaxRuns == 2         \* dispatch iterations that can be alive at once
MaxSends == 2        \* message_logs rows one lead can get
MaxTime == 2         \* the clock and the webhook timestamps range over 1..MaxTime
HookLeads == 1       \* leads of the campaign whose status callbacks are followed
BreakerLeads == 4    \* leads of the campaign whose number gets throttled
SoloLeads == 3       \* leads of the campaign that runs undisturbed
PauseLeads == 3      \* leads of the campaign that is paused between two recipients
MaxInbound == 1      \* logged incoming messages per lead
PaceLeads == 2       \* leads of the campaign whose waits are measured
OptOutLeads == 2     \* leads of the campaign whose recipients opt out
WarmupLeads == 11    \* leads of the warmup campaign: one more than its daily limit

\* ------------------------------------------------------- program constants

MAX_RETRIES == 1
CONSECUTIVE_THROTTLE_LIMIT == 3
ThrottleCode == 131049
NotOnWhatsAppCode == 131026
RetryWaitCapMs == 600000
MinJitterBoundMs == 2000
FastDelayMs == 5000
NormalDelayMs == 30000
SlowDelayMs == 300000
VerySlowDelayMs == 600000
WarmupDelayMs == 1800000
WarmupDailyLimit == 10

SENDING_SPEEDS ==
  [fast      |-> [delayMs |-> FastDelayMs,     dailyLimit |-> 0],
   normal    |-> [delayMs |-> NormalDelayMs,   dailyLimit |-> 0],
   slow      |-> [delayMs |-> SlowDelayMs,     dailyLimit |-> 0],
   very_slow |-> [delayMs |-> VerySlowDelayMs, dailyLimit |-> 0],
   warmup    |-> [delayMs |-> WarmupDelayMs,   dailyLimit |-> WarmupDailyLimit]]

\* ------------------------------------------------------------------ types

CampaignStatus == {"DRAFT", "SCHEDULED", "RUNNING", "PAUSED", "COMPLETED", "CANCELLED"}
CampaignLeadStatus == {"PENDING", "SENT", "DELIVERED", "READ", "FAILED", "OPTED_OUT"}
MessageStatus == {"PENDING", "QUEUED", "SENT", "DELIVERED", "READ", "FAILED"}
LeadStatus == {"NEW", "CONTACTED", "INTERESTED", "NEGOTIATING", "CONVERTED",
               "REJECTED", "DO_NOT_CONTACT"}

\* The campaign under test, its template, and another campaign / template
\* whose rows share the message_logs table.
ThisCampaign == "c1"
OtherCampaign == "c2"
ThisTemplate == "t1"
OtherTemplate == "t2"

\* campaign_leads has no row for a lead that was never enrolled.
NoRow == "NONE"

\* whatsappMessageId is null until the provider accepted the send.
NoMessageId == <<>>

VARIABLES
  campaign,      \* the campaigns row: status, counters, totalLeads, targetFilters
  leads,         \* leads table: id -> [status, optedOut, optedOutAt]
  campaignLead,  \* campaign_leads rows of the campaign: lead id -> status or NoRow
  messageLog,    \* message_logs table: lead id -> that lead's rows, oldest first
  runs,          \* the processCampaignMessages invocations: slot -> locals and pc
  now,           \* the wall clock read by new Date()
  webhook        \* the POST /api/webhook/whatsapp request being served, if any

vars == <<campaign, leads, campaignLead, messageLog, runs, now, webhook>>

\* ------------------------------------------------------------------ helpers

Min(S) == CHOOSE x \in S : \A y \in S : x <= y

RECURSIVE SortedSeq(_)
SortedSeq(S) == IF S = {} THEN <<>> ELSE <<Min(S)>> \o SortedSeq(S \ {Min(S)})

\* The ids of the leads table, the slots, and the keys <<lead, n>> of the
\* message_logs rows (no code reads the order of rows of different leads).
Leads == DOMAIN leads
RunIds == DOMAIN runs
AllLogKeys(ml) == UNION {{<<l, k>> : k \in 1..Len(ml[l])} : l \in DOMAIN ml}
Row(ml, key) == ml[key[1]][key[2]]

IdleRun ==
  [pc |-> "idle", leadIds |-> <<>>, i |-> 0, sent |-> 0, failed |-> 0,
   consecutiveThrottles |-> 0, attempts |-> 0, success |-> FALSE, errorCode |-> 0,
   thrown |-> FALSE, logKey |-> NoMessageId, leadWasNew |-> FALSE, waitTime |-> 0]

\* No webhook request is being served and none was answered yet.
NoResponse == 0
IdleWebhook == [pc |-> "idle", response |-> NoResponse, caught |-> FALSE]

FreeRuns == {r \in RunIds : runs[r].pc = "idle"}

\* The messages of the AppError(400) a route throws for a campaign status it
\* does not accept.
InvalidStateErrors ==
  {"Campaign is already running", "Campaign has already completed",
   "Only running campaigns can be paused", "Only paused campaigns can be resumed",
   "Campaign must be running or paused to resend",
   "Campaign must be running, paused, or completed to retry"}

\* ------------------------------------------------------------- initial state

\* A campaign as POST /api/campaigns stores it: counters 0, no enrollment, no
\* dispatch iteration.  targetFilters is the blob the route writes.
NewCampaign(status, targetFilters) ==
  [status |-> status, templateId |-> ThisTemplate,
   sentCount |-> 0, failedCount |-> 0, deliveredCount |-> 0, readCount |-> 0,
   totalLeads |-> Cardinality(targetFilters.leadIds), targetFilters |-> targetFilters]

TargetFilters(leadIds, status, skip, speed) ==
  [leadIds |-> leadIds, status |-> status, skipDuplicateTemplate |-> skip,
   sendingSpeed |-> speed]

FreshLeads(ids) ==
  [l \in ids |-> [status |-> "NEW", optedOut |-> FALSE, optedOutAt |-> 0]]

\* A store with n leads nobody contacted yet and no message row, in a process
\* that can hold m dispatch iterations.
InitStore(n, m) ==
  /\ leads = FreshLeads(1..n)
  /\ campaignLead = [l \in 1..n |-> NoRow]
  /\ messageLog = [l \in 1..n |-> <<>>]
  /\ runs = [r \in 1..m |-> IdleRun]
  /\ now = 1
  /\ webhook = IdleWebhook

\* The campaign was just created (DRAFT, or SCHEDULED when scheduledAt was
\* given) for an explicit selection of leads at the default speed.
InitCreated ==
  /\ InitStore(NumLeads, MaxRuns)
  /\ \E st \in {"DRAFT", "SCHEDULED"}, skip \in BOOLEAN :
       campaign = NewCampaign(st, TargetFilters(1..NumLeads, {}, skip, "normal"))

\* ------------------------------------------------------- the operator routes

\* What a route does with the store: the error it throws ("" when it answers
\* success), the campaign and campaign_leads rows it leaves, and the lead ids
\* it hands to processCampaignMessages ({} when it launches nothing).
RouteResult(error, c, cl, launch) ==
  [error |-> error, campaign |-> c, campaignLead |-> cl, launch |-> launch]

RouteRejects(error) == RouteResult(error, campaign, campaignLead, {})

\* router.post('/:id/start'): the leads the target specification resolves to.
MatchingLeads ==
  LET tf == campaign.targetFilters IN
  IF tf.leadIds # {}
    THEN {l \in tf.leadIds \cap Leads :
            /\ ~leads[l].optedOut
            /\ leads[l].status \notin {"DO_NOT_CONTACT", "REJECTED"}}
    ELSE {l \in Leads : /\ ~leads[l].optedOut
                        /\ IF tf.status # {}
                             THEN leads[l].status \in tf.status
                             ELSE leads[l].status \notin {"DO_NOT_CONTACT", "REJECTED"}}

\* A dedup query that would look only at the campaign's own rows.
CountsAsReceivedOwnCampaign(row) ==
  /\ row.campaignId = ThisCampaign
  /\ row.templateId = campaign.templateId
  /\ row.direction = "OUTBOUND"
  /\ row.status \notin {"FAILED"}

\* The rows the dedup query of start selects: OUTBOUND, the campaign's
\* template, any status but FAILED.
CountsAsReceived(row) ==
  /\ row.templateId = campaign.templateId
  /\ row.direction = "OUTBOUND"
  /\ row.status \notin {"FAILED"}

AlreadyReceivedIds ==
  IF campaign.targetFilters.skipDuplicateTemplate # FALSE
    THEN {l \in Leads : \E k \in 1..Len(messageLog[l]) : CountsAsReceived(messageLog[l][k])}
    ELSE {}

StartLeads == MatchingLeads \ AlreadyReceivedIds

\* The statuses on which start throws before doing anything.
StartRejects(status) ==
  CASE status = "RUNNING" -> "Campaign is already running"
    [] status = "COMPLETED" -> "Campaign has already completed"
    [] OTHER -> ""

StartResult ==
  IF StartRejects(campaign.status) # ""
    THEN RouteRejects(StartRejects(campaign.status))
  ELSE IF StartLeads = {}
    THEN RouteRejects("No leads match the campaign filters")
  ELSE RouteResult("",
         [campaign EXCEPT !.status = "RUNNING", !.totalLeads = Cardinality(StartLeads)],
         [l \in Leads |-> IF l \in StartLeads /\ campaignLead[l] = NoRow
                            THEN "PENDING" ELSE campaignLead[l]],
         StartLeads)

\* A pause that would also answer success on a campaign already PAUSED.
PauseResultLenient ==
  IF campaign.status \notin {"RUNNING", "PAUSED"}
    THEN RouteRejects("Only running campaigns can be paused")
    ELSE RouteResult("", [campaign EXCEPT !.status = "PAUSED"], campaignLead, {})

\* router.post('/:id/pause')
PauseResult ==
  IF campaign.status # "RUNNING"
    THEN RouteRejects("Only running campaigns can be paused")
    ELSE RouteResult("", [campaign EXCEPT !.status = "PAUSED"], campaignLead, {})

\* router.post('/:id/resume')
ResumeResult ==
  IF campaign.status # "PAUSED"
    THEN RouteRejects("Only paused campaigns can be resumed")
    ELSE RouteResult("", [campaign EXCEPT !.status = "RUNNING"], campaignLead, {})

\* router.post('/:id/resend')
PendingLeads == {l \in Leads : campaignLead[l] = "PENDING"}

ResendResult ==
  IF campaign.status # "RUNNING" /\ campaign.status # "PAUSED"
    THEN RouteRejects("Campaign must be running or paused to resend")
  ELSE IF PendingLeads = {}
    THEN RouteRejects("No pending messages to send")
  ELSE RouteResult("", [campaign EXCEPT !.status = "RUNNING"], campaignLead, PendingLeads)

\* router.post('/:id/retry-failed')
FailedLeads ==
  {l \in Leads : /\ campaignLead[l] = "FAILED"
                 /\ leads[l].status \notin {"DO_NOT_CONTACT", "REJECTED"}
                 /\ ~leads[l].optedOut}

RetryFailedResult ==
  IF campaign.status # "RUNNING" /\ campaign.status # "PAUSED"
       /\ campaign.status # "COMPLETED"
    THEN RouteRejects("Campaign must be running, paused, or completed to retry")
  ELSE IF FailedLeads = {}
    THEN RouteRejects("No retryable failed messages")
  ELSE RouteResult("", [campaign EXCEPT !.status = "RUNNING"],
         [l \in Leads |-> IF l \in FailedLeads THEN "PENDING" ELSE campaignLead[l]],
         FailedLeads)

\* processCampaignMessages(...) called without await: the iteration runs
\* detached, in a free slot, up to its first read of the campaign.
Launch(ids) ==
  /\ FreeRuns # {}
  /\ runs' = [runs EXCEPT ![Min(FreeRuns)] =
               [IdleRun EXCEPT !.pc = "check", !.leadIds = SortedSeq(ids), !.i = 1]]

\* A request served: the store as the route leaves it.
Serve(result) ==
  /\ result.error = ""
  /\ campaign' = result.campaign
  /\ campaignLead' = result.campaignLead
  /\ IF result.launch = {} THEN UNCHANGED runs ELSE Launch(result.launch)
  /\ UNCHANGED <<leads, messageLog, now, webhook>>

Start == Serve(StartResult)
Pause == Serve(PauseResult)
Resume == Serve(ResumeResult)
Resend == Serve(ResendResult)
RetryFailed == Serve(RetryFailedResult)

\* ------------------------------------------ the dispatch iteration (detached)

SpeedConfig ==
  IF campaign.targetFilters.sendingSpeed \in DOMAIN SENDING_SPEEDS
    THEN SENDING_SPEEDS[campaign.targetFilters.sendingSpeed]
    ELSE SENDING_SPEEDS["normal"]

BASE_DELAY == SpeedConfig.delayMs
DAILY_LIMIT == SpeedConfig.dailyLimit

CurrentLead(r) == runs[r].leadIds[runs[r].i]

\* The locals of one pass of the loop body, as they are when the pass begins.
BodyDone(run) ==
  [run EXCEPT !.attempts = 0, !.success = FALSE, !.errorCode = 0, !.thrown = FALSE,
              !.logKey = NoMessageId, !.leadWasNew = FALSE]

\* A loop exit that would return at once, without the final status read.
ReturnsWithoutFinalRead(run) == IdleRun

\* Leave the loop (break, or the list exhausted): the final status read is
\* next; what the loop used is never read again.
AfterLoop(run) ==
  [BodyDone(run) EXCEPT !.pc = "finalRead", !.leadIds = <<>>, !.i = 0,
                        !.consecutiveThrottles = 0, !.waitTime = 0]

\* Return from processCampaignMessages: the slot is free again.
Exit(r) == runs' = [runs EXCEPT ![r] = IdleRun]

\* The loop goes on to a send only on a campaign it has just read as RUNNING.
StopsLoop(status) == status # "RUNNING"

\* for (const leadId of leadIds): re-read the campaign; stop unless RUNNING;
\* with a daily limit reached, go and pause.
LoopCheck(r) ==
  /\ runs[r].pc = "check"
  /\ runs' = [runs EXCEPT ![r] =
       IF StopsLoop(campaign.status) THEN AfterLoop(@)
       ELSE IF DAILY_LIMIT > 0 /\ runs[r].sent >= DAILY_LIMIT
         THEN [@ EXCEPT !.pc = "limitPause"]
       ELSE [@ EXCEPT !.pc = "send"]]
  /\ UNCHANGED <<campaign, leads, campaignLead, messageLog, now, webhook>>

\* Daily limit reached: campaign.update({status: 'PAUSED'}); break.
LimitPause(r) ==
  /\ runs[r].pc = "limitPause"
  /\ campaign' = [campaign EXCEPT !.status = "PAUSED"]
  /\ runs' = [runs EXCEPT ![r] = AfterLoop(@)]
  /\ UNCHANGED <<leads, campaignLead, messageLog, now, webhook>>

\* What one call of sendCampaignMessage meets once it goes to the provider:
\* the provider accepts, or refuses with an error code (0 when the failure
\* carries none, as a network error does), or a store call after the answer
\* rejects and sendCampaignMessage throws.
Accepted == [success |-> TRUE, errorCode |-> 0, thrown |-> FALSE]
Refused(code) == [success |-> FALSE, errorCode |-> code, thrown |-> FALSE]
Threw == [success |-> FALSE, errorCode |-> 0, thrown |-> TRUE]
ProviderOutcomes ==
  {Accepted, Refused(ThrottleCode), Refused(NotOnWhatsAppCode)}

\* The message_logs row sendCampaignMessage creates before calling the provider.
PendingLog(leadId) ==
  [leadId |-> leadId, campaignId |-> ThisCampaign, templateId |-> campaign.templateId,
   direction |-> "OUTBOUND", status |-> "PENDING", whatsappMessageId |-> NoMessageId,
   sentAt |-> 0, deliveredAt |-> 0, readAt |-> 0, failedAt |-> 0]

\* A retry loop that would go round again after any failure.
BreaksRetryLoopOnSuccess(success, errorCode) == success

\* The loop's decision after one sendCampaignMessage result: retry only a
\* throttled (131049) failure.
BreaksRetryLoop(success, errorCode) == success \/ errorCode # ThrottleCode

\* if (lead.optedOut) return {success: false, ...}: no row, no provider call.
OptedOutResult(r) ==
  runs' = [runs EXCEPT ![r].success = FALSE, ![r].errorCode = 0, ![r].pc = "record"]

\* messageLog.create and whatsappClient.sendTemplateMessage for a lead that
\* was read as not opted out (wasNew: its status was NEW at that read); the
\* answer (one of `outcomes`) is in flight until SendEnd.
CreateAndCall(r, wasNew, outcomes) ==
  LET lead == CurrentLead(r) IN
  /\ Len(messageLog[lead]) < MaxSends
  /\ messageLog' = [messageLog EXCEPT ![lead] = Append(@, PendingLog(lead))]
  /\ \E o \in outcomes :
       runs' = [runs EXCEPT ![r].success = o.success,
                            ![r].errorCode = o.errorCode,
                            ![r].thrown = o.thrown,
                            ![r].logKey = <<lead, Len(messageLog[lead]) + 1>>,
                            ![r].leadWasNew = wasNew,
                            ![r].pc = "inflight"]

\* sendCampaignMessage, up to and including the provider call: read the lead,
\* refuse an opted-out lead without creating a row, else create the PENDING row
\* and call the provider.  One step: used where no handler writes the lead's
\* optedOut between the read and the call.
SendBegin(r, outcomes) ==
  /\ runs[r].pc = "send"
  /\ LET lead == CurrentLead(r) IN
     IF leads[lead].optedOut
       THEN OptedOutResult(r) /\ UNCHANGED messageLog
       ELSE CreateAndCall(r, leads[lead].status = "NEW", outcomes)
  /\ UNCHANGED <<campaign, leads, campaignLead, now, webhook>>

\* The same in two steps, as the awaits of sendCampaignMessage cut it: the
\* read of the lead with the opt-out test ...
LeadLookup(r) ==
  /\ runs[r].pc = "send"
  /\ LET lead == CurrentLead(r) IN
     IF leads[lead].optedOut
       THEN OptedOutResult(r)
       ELSE runs' = [runs EXCEPT ![r].leadWasNew = (leads[lead].status = "NEW"),
                                 ![r].pc = "call"]
  /\ UNCHANGED <<campaign, leads, campaignLead, messageLog, now, webhook>>

\* ... and, after it, the row and the provider call.
ProviderCall(r, outcomes) ==
  /\ runs[r].pc = "call"
  /\ CreateAndCall(r, runs[r].leadWasNew, outcomes)
  /\ UNCHANGED <<campaign, leads, campaignLead, now, webhook>>

\* sendCampaignMessage after the provider call returned: update the row (the
\* provider's message id is named after the row), the lead, and hand the
\* result to the retry loop, which waits before it retries.
SentLog(log, id, at) ==
  [log EXCEPT !.whatsappMessageId = id, !.status = "SENT", !.sentAt = at]

FailedLog(log, at) == [log EXCEPT !.status = "FAILED", !.failedAt = at]

Max(S) == CHOOSE x \in S : \A y \in S : x >= y

\* const waitTime = Math.min(BASE_DELAY * 2, 600_000)
RetryWaitTime == Min({BASE_DELAY * 2, RetryWaitCapMs})

\* jitter = Math.floor(Math.random() * Math.max(BASE_DELAY * 0.1, 2000)): any
\* integer from 0 up to the bound, excluded; the two ends stand for them.
JitterBound == Max({BASE_DELAY \div 10, MinJitterBoundMs})
Jitters == {0, JitterBound - 1}

SendEnd(r) ==
  /\ runs[r].pc = "inflight"
  /\ LET lead == CurrentLead(r)
         key == runs[r].logKey
     IN
     IF runs[r].thrown
       THEN /\ runs' = [runs EXCEPT ![r].pc = "record"]
            /\ UNCHANGED <<messageLog, leads>>
       ELSE /\ messageLog' = [messageLog EXCEPT ![key[1]][key[2]] =
                 IF runs[r].success THEN SentLog(@, key, now) ELSE FailedLog(@, now)]
            /\ leads' = [leads EXCEPT ![lead].status =
                 IF runs[r].success
                   THEN (IF runs[r].leadWasNew THEN "CONTACTED" ELSE @)
                   ELSE (IF runs[r].errorCode = NotOnWhatsAppCode
                           THEN "DO_NOT_CONTACT" ELSE @)]
            /\ runs' = IF BreaksRetryLoop(runs[r].success, runs[r].errorCode)
                 THEN [runs EXCEPT ![r].pc = "record"]
                 ELSE [runs EXCEPT ![r].pc = "retryWait", ![r].attempts = @ + 1,
                                   ![r].waitTime = RetryWaitTime]
  /\ UNCHANGED <<campaign, campaignLead, now, webhook>>

\* The throttle wait is over: while (attempts <= MAX_RETRIES) sends again.
RetryWake(r) ==
  /\ runs[r].pc = "retryWait"
  /\ runs' = [runs EXCEPT ![r].waitTime = 0, ![r].pc =
       IF runs[r].attempts <= MAX_RETRIES THEN "send" ELSE "record"]
  /\ UNCHANGED <<campaign, leads, campaignLead, messageLog, now, webhook>>

\* An enrollment update that would not look at the result.
NewStatusAlwaysSent(success) == "SENT"

\* const newStatus = result.success ? 'SENT' : 'FAILED'
NewStatus(success) == IF success THEN "SENT" ELSE "FAILED"

BreakerTrips(consecutiveThrottles) == consecutiveThrottles >= CONSECUTIVE_THROTTLE_LIMIT

\* After the retry loop: the enrollment, the local counters, the circuit
\* breaker (pause and break), else the campaign counters; or, when
\* sendCampaignMessage threw, the catch block: failed++ and the enrollment
\* FAILED.  Then, unless the breaker broke the loop, the paced delay begins.
Record(r) ==
  /\ runs[r].pc = "record"
  /\ LET lead == CurrentLead(r)
         ok == runs[r].success
         sent == IF ok THEN runs[r].sent + 1 ELSE runs[r].sent
         failed == IF ok THEN runs[r].failed ELSE runs[r].failed + 1
         throttles == IF runs[r].thrown THEN runs[r].consecutiveThrottles
                      ELSE IF ~ok /\ runs[r].errorCode = ThrottleCode
                        THEN runs[r].consecutiveThrottles + 1 ELSE 0
         trip == /\ ~runs[r].thrown /\ ~ok /\ runs[r].errorCode = ThrottleCode
                 /\ BreakerTrips(throttles)
     IN
     /\ campaignLead' = [campaignLead EXCEPT ![lead] =
          IF @ = NoRow THEN @ ELSE NewStatus(ok)]
     /\ campaign' = IF runs[r].thrown THEN campaign
          ELSE IF trip
          THEN [campaign EXCEPT !.status = "PAUSED", !.failedCount = failed]
          ELSE [campaign EXCEPT !.sentCount = sent, !.failedCount = failed]
     /\ \E jitter \in Jitters :
          runs' = [runs EXCEPT ![r] =
            IF trip
              THEN AfterLoop([@ EXCEPT !.sent = sent, !.failed = failed])
              ELSE BodyDone([@ EXCEPT !.sent = sent, !.failed = failed,
                                      !.consecutiveThrottles = throttles, !.pc = "sleep",
                                      !.waitTime = BASE_DELAY + jitter])]
  /\ UNCHANGED <<leads, messageLog, now, webhook>>

\* The paced delay is over: next lead, or out of the loop.
Sleep(r) ==
  /\ runs[r].pc = "sleep"
  /\ runs' = [runs EXCEPT ![r] =
       IF runs[r].i + 1 > Len(runs[r].leadIds)
         THEN AfterLoop(@)
         ELSE [@ EXCEPT !.i = @ + 1, !.pc = "check", !.waitTime = 0]]
  /\ UNCHANGED <<campaign, leads, campaignLead, messageLog, now, webhook>>

\* After the loop: read the campaign once more.
FinalRead(r) ==
  /\ runs[r].pc = "finalRead"
  /\ IF campaign.status = "RUNNING"
       THEN runs' = [runs EXCEPT ![r].pc = "finalWrite"]
       ELSE Exit(r)
  /\ UNCHANGED <<campaign, leads, campaignLead, messageLog, now, webhook>>

\* ... and mark it COMPLETED if that read said RUNNING.
FinalWrite(r) ==
  /\ runs[r].pc = "finalWrite"
  /\ campaign' = [campaign EXCEPT !.status = "COMPLETED",
                                  !.sentCount = runs[r].sent,
                                  !.failedCount = runs[r].failed]
  /\ Exit(r)
  /\ UNCHANGED <<leads, campaignLead, messageLog, now, webhook>>

\* ------------------------------------------------------ the webhook service

\* processStatusUpdate's switch: the fields one status callback writes.
StatusUpdateData(log, messageStatus, statusTimestamp) ==
  CASE messageStatus = "sent" ->
         [log EXCEPT !.status = "SENT", !.sentAt = statusTimestamp]
    [] messageStatus = "delivered" ->
         [log EXCEPT !.status = "DELIVERED", !.deliveredAt = statusTimestamp]
    [] messageStatus = "read" ->
         [log EXCEPT !.status = "READ", !.readAt = statusTimestamp]
    [] messageStatus = "failed" ->
         [log EXCEPT !.status = "FAILED", !.failedAt = statusTimestamp]
    [] OTHER -> log

\* messageLog.groupBy({by: ['status'], where: {campaignId}}): rows per status.
StatusCount(ml, campaignId, statuses) ==
  Cardinality({key \in AllLogKeys(ml) : /\ Row(ml, key).campaignId = campaignId
                                        /\ Row(ml, key).status \in statuses})

\* A statistics update that would add the rows it counts to the counters
\* instead of replacing them.
updateCampaignStatsAdding(c, ml) ==
  [c EXCEPT !.sentCount = @ + StatusCount(ml, ThisCampaign, {"SENT", "DELIVERED", "READ"}),
            !.deliveredCount = @ + StatusCount(ml, ThisCampaign, {"DELIVERED", "READ"}),
            !.readCount = @ + StatusCount(ml, ThisCampaign, {"READ"}),
            !.failedCount = @ + StatusCount(ml, ThisCampaign, {"FAILED"})]

\* updateCampaignStats: the four counters recomputed from the rows.
updateCampaignStats(c, ml) ==
  [c EXCEPT !.sentCount = StatusCount(ml, ThisCampaign, {"SENT", "DELIVERED", "READ"}),
            !.deliveredCount = StatusCount(ml, ThisCampaign, {"DELIVERED", "READ"}),
            !.readCount = StatusCount(ml, ThisCampaign, {"READ"}),
            !.failedCount = StatusCount(ml, ThisCampaign, {"FAILED"})]

\* A lookup that would fall back on the rows there are.
FindAnyRow(ml, id) == AllLogKeys(ml)

\* A lookup that would find a row by the id the provider returned for it
\* whether or not the row carries the id yet.
FindByKey(ml, id) == {key \in AllLogKeys(ml) : key = id}

\* messageLog.findUnique({where: {whatsappMessageId}}): the row, if any.
FindByMessageId(ml, id) == {key \in AllLogKeys(ml) : Row(ml, key).whatsappMessageId = id}

WebhookStatuses == {"sent", "delivered", "read", "failed"}

\* parseInt(timestamp) of a timestamp that is no number: the Date made of it
\* is invalid and the row update that carries it rejects.
NotANumber == -1
Timestamps == 1..MaxTime \cup {NotANumber}

\* processStatusUpdate as a function of the store: [messageLog, campaign] after
\* the callback (id, messageStatus, timestamp) was handled, and whether the
\* handling threw.
processStatusUpdate(ml, c, id, messageStatus, timestamp) ==
  IF FindByMessageId(ml, id) = {}
    THEN [messageLog |-> ml, campaign |-> c, thrown |-> FALSE]
  ELSE IF timestamp = NotANumber /\ messageStatus \in WebhookStatuses
    THEN [messageLog |-> ml, campaign |-> c, thrown |-> TRUE]
    ELSE LET key == CHOOSE k \in FindByMessageId(ml, id) : TRUE
             updated == [ml EXCEPT ![key[1]][key[2]] =
                           StatusUpdateData(@, messageStatus, timestamp)]
         IN [messageLog |-> updated,
             campaign |-> IF Row(ml, key).campaignId = ThisCampaign
                            THEN updateCampaignStats(c, updated) ELSE c,
             thrown |-> FALSE]

\* A message id no row carries, now or later.
UnknownMessageId == <<0, 0>>

\* The message ids the provider can call back about: those it returned for an
\* accepted send (the row may not carry it yet), and ids this store never saw.
ProviderMessageIds ==
  {UnknownMessageId}
    \cup {key \in AllLogKeys(messageLog) : Row(messageLog, key).whatsappMessageId = key}
    \cup {runs[r].logKey : r \in {q \in RunIds : runs[q].pc = "inflight" /\ runs[q].success}}

\* A handler that would leave the answer for later.
NotAcknowledged(w) == w

\* res.sendStatus(200), the first statement of the POST handler.
Acknowledged(w) == [w EXCEPT !.response = 200]

\* POST /api/webhook/whatsapp arrives: the handler answers, then goes on to
\* the payload.
WebhookPost ==
  /\ webhook.pc = "idle"
  /\ webhook' = Acknowledged([pc |-> "process", response |-> NoResponse, caught |-> FALSE])
  /\ UNCHANGED <<campaign, leads, campaignLead, messageLog, runs, now>>

\* The handler returns (caught: through its catch block).
WebhookDone(caught) == webhook' = [webhook EXCEPT !.pc = "idle", !.caught = caught]

\* payload.object is not 'whatsapp_business_account': logged and ignored.
IgnoredPayload ==
  /\ webhook.pc = "process"
  /\ WebhookDone(FALSE)
  /\ UNCHANGED <<campaign, leads, campaignLead, messageLog, runs, now>>

\* A payload without an iterable entry list: processWebhookEvent throws, the
\* handler's catch logs the error.
MalformedPayload ==
  /\ webhook.pc = "process"
  /\ WebhookDone(TRUE)
  /\ UNCHANGED <<campaign, leads, campaignLead, messageLog, runs, now>>

\* The payload carries one status entry, with a status of `statuses` and a
\* timestamp of `timestamps`.
StatusCallback(statuses, timestamps) ==
  /\ webhook.pc = "process"
  /\ \E id \in ProviderMessageIds, st \in statuses, ts \in timestamps :
       LET after == processStatusUpdate(messageLog, campaign, id, st, ts) IN
       /\ messageLog' = after.messageLog
       /\ campaign' = after.campaign
       /\ WebhookDone(after.thrown)
  /\ UNCHANGED <<leads, campaignLead, runs, now>>

StatusUpdate == StatusCallback(WebhookStatuses, Timestamps)

\* A sender whose phone number no lead has.
UnknownSender == 0

\* The ids the provider gives the incoming messages of one sender; it can
\* deliver a message more than once, with the same id.
InboundMessageIds(from) == {<<from, -n>> : n \in 0..(MaxInbound - 1)}

\* The message_logs row processIncomingMessage creates.
InboundLog(leadId, id, at) ==
  [leadId |-> leadId, campaignId |-> "", templateId |-> "",
   direction |-> "INBOUND", status |-> "DELIVERED", whatsappMessageId |-> id,
   sentAt |-> 0, deliveredAt |-> at, readAt |-> 0, failedAt |-> 0]

\* A text is the sequence of its characters.
UpperCase == <<"A", "B", "C", "D", "E", "F", "G", "H", "I", "J", "K", "L", "M",
               "N", "O", "P", "Q", "R", "S", "T", "U", "V", "W", "X", "Y", "Z">>
LowerCase == <<"a", "b", "c", "d", "e", "f", "g", "h", "i", "j", "k", "l", "m",
               "n", "o", "p", "q", "r", "s", "t", "u", "v", "w", "x", "y", "z">>

\* The lower case of each upper-case character.
UpperToLower ==
  [c \in {UpperCase[k] : k \in 1..Len(UpperCase)} |->
     LowerCase[CHOOSE k \in 1..Len(UpperCase) : UpperCase[k] = c]]

\* content.toLowerCase(): a character that has a lower case is replaced by it.
toLowerCase(text) ==
  [i \in 1..Len(text) |->
     IF text[i] \in DOMAIN UpperToLower THEN UpperToLower[text[i]] ELSE text[i]]

\* messageText.includes(keyword)
includes(text, keyword) ==
  \E i \in 1..(Len(text) - Len(keyword) + 1) :
    SubSeq(text, i, i + Len(keyword) - 1) = keyword

\* ['stop', 'unsubscribe', 'opt out', and the two Hindi keywords, whose
\* characters are named by their code points]
optOutKeywords ==
  {<<"s", "t", "o", "p">>,
   <<"u", "n", "s", "u", "b", "s", "c", "r", "i", "b", "e">>,
   <<"o", "p", "t", " ", "o", "u", "t">>,
   <<"U+0930", "U+094B", "U+0915", "U+0947", "U+0902">>,
   <<"U+092C", "U+0902", "U+0926", " ", "U+0915", "U+0930", "U+094B">>}

\* The contents of the incoming messages followed.
InboundTexts ==
  {<<"S", "T", "O", "P">>,
   <<"h", "e", "l", "l", "o">>,
   <<"P", "l", "s", " ", "U", "n", "s", "u", "b", "s", "c", "r", "i", "b", "e">>,
   <<"o", "p", "t", "-", "o", "u", "t">>,
   <<"O", "p", "t", " ", "O", "u", "t">>,
   <<"U+0930", "U+094B", "U+0915", "U+0947", "U+0902">>,
   <<"s", " ", "t", " ", "o", " ", "p">>,
   <<"[", "I", "m", "a", "g", "e", "]">>}

\* processIncomingMessage as a function of the store: [leads, messageLog] after
\* the message (from, id, content) was handled at time `at`, and whether the
\* handling threw.  No lead with the sender's phone: dropped; an opt-out
\* keyword in the text: the lead is marked; else the message is logged, which
\* the unique index on whatsappMessageId refuses for an id a row carries.
processIncomingMessage(ls, ml, from, id, content, at) ==
  IF from \notin DOMAIN ls
    THEN [leads |-> ls, messageLog |-> ml, thrown |-> FALSE]
  ELSE IF \E keyword \in optOutKeywords : includes(toLowerCase(content), keyword)
    THEN [leads |-> [ls EXCEPT ![from].optedOut = TRUE, ![from].optedOutAt = at,
                               ![from].status = "DO_NOT_CONTACT"],
          messageLog |-> ml, thrown |-> FALSE]
  ELSE IF FindByMessageId(ml, id) # {}
    THEN [leads |-> ls, messageLog |-> ml, thrown |-> TRUE]
    ELSE [leads |-> ls,
          messageLog |-> [ml EXCEPT ![from] = Append(@, InboundLog(from, id, at))],
          thrown |-> FALSE]

\* The payload carries one message.
IncomingMessage ==
  /\ webhook.pc = "process"
  /\ \E from \in Leads \cup {UnknownSender}, content \in InboundTexts :
       \E id \in InboundMessageIds(from) :
         LET after == processIncomingMessage(leads, messageLog, from, id, content, now) IN
         /\ leads' = after.leads
         /\ messageLog' = after.messageLog
         /\ WebhookDone(after.thrown)
  /\ UNCHANGED <<campaign, campaignLead, runs, now>>

\* Time passes.
Tick ==
  /\ now < MaxTime
  /\ now' = now + 1
  /\ UNCHANGED <<campaign, leads, campaignLead, messageLog, runs, webhook>>

\* ------------------------------------------------------------ specifications

Init == InitCreated

Operator == Start \/ Pause \/ Resume \/ Resend \/ RetryFailed

Dispatch ==
  \/ \E r \in RunIds : LoopCheck(r)
  \/ \E r \in RunIds : SendBegin(r, ProviderOutcomes)
  \/ \E r \in RunIds : SendEnd(r)
  \/ \E r \in RunIds : RetryWake(r)
  \/ \E r \in RunIds : Record(r)
  \/ \E r \in RunIds : Sleep(r)
  \/ \E r \in RunIds : FinalRead(r)
  \/ \E r \in RunIds : FinalWrite(r)

Next == Operator \/ Dispatch

Spec == Init /\ [][Next]_vars

\* The store may also hold a campaign this process did not create and that
\* carries the one status of the CampaignStatus enum no route writes.
InitStored ==
  /\ InitStore(NumLeads, 1)
  /\ \E st \in {"DRAFT", "SCHEDULED", "CANCELLED"}, skip \in BOOLEAN :
       campaign = NewCampaign(st, TargetFilters(1..NumLeads, {}, skip, "normal"))

SpecStored == InitStored /\ [][Next]_vars

\* The campaign, started once, with the provider's status callbacks arriving
\* while and after the iteration runs.
InitHook ==
  /\ InitStore(HookLeads, 1)
  /\ campaign = NewCampaign("DRAFT", TargetFilters(1..HookLeads, {}, TRUE, "normal"))

NextHook == Start \/ Dispatch \/ WebhookPost \/ StatusUpdate \/ Tick

SpecHook == InitHook /\ [][NextHook]_vars

\* A number the provider throttles: every send is accepted or refused with
\* 131049.  The operator starts the campaign and asks to resend what is pending.
InitBreaker ==
  /\ InitStore(BreakerLeads, MaxRuns)
  /\ campaign = NewCampaign("DRAFT", TargetFilters(1..BreakerLeads, {}, TRUE, "normal"))

ThrottledOutcomes == {Accepted, Refused(ThrottleCode)}

NextBreaker ==
  \/ Start
  \/ Resend
  \/ \E r \in RunIds : LoopCheck(r)
  \/ \E r \in RunIds : SendBegin(r, ThrottledOutcomes)
  \/ \E r \in RunIds : SendEnd(r)
  \/ \E r \in RunIds : RetryWake(r)
  \/ \E r \in RunIds : Record(r)
  \/ \E r \in RunIds : Sleep(r)
  \/ \E r \in RunIds : FinalRead(r)
  \/ \E r \in RunIds : FinalWrite(r)

SpecBreaker == InitBreaker /\ [][NextBreaker]_vars

\* Rows other campaigns left in message_logs before this one is started: per
\* lead none, or one OUTBOUND row of the other campaign, for this or another
\* template, delivered or failed.
PriorLog(leadId, templateId, status) ==
  [PendingLog(leadId) EXCEPT !.campaignId = OtherCampaign, !.templateId = templateId,
     !.status = status,
     !.whatsappMessageId = IF status = "FAILED" THEN NoMessageId ELSE <<leadId, 1>>]

PriorLogs(leadId) ==
  {<<>>, <<PriorLog(leadId, ThisTemplate, "DELIVERED")>>,
   <<PriorLog(leadId, ThisTemplate, "FAILED")>>,
   <<PriorLog(leadId, OtherTemplate, "DELIVERED")>>}

InitDedup ==
  /\ leads = FreshLeads(1..NumLeads)
  /\ campaignLead = [l \in 1..NumLeads |-> NoRow]
  /\ runs = [r \in 1..1 |-> IdleRun]
  /\ now = 1
  /\ webhook = IdleWebhook
  /\ campaign = NewCampaign("DRAFT", TargetFilters(1..NumLeads, {}, TRUE, "normal"))
  /\ messageLog \in [1..NumLeads -> UNION {PriorLogs(l) : l \in 1..NumLeads}]
  /\ \A l \in 1..NumLeads : messageLog[l] \in PriorLogs(l)

SpecDedup == InitDedup /\ [][Next]_vars

\* The campaign started once and left alone: no operator request after start,
\* and a provider that accepts a send or refuses it with 131026.
InitSolo ==
  /\ InitStore(SoloLeads, 1)
  /\ \E st \in {"DRAFT", "SCHEDULED"}, skip \in BOOLEAN :
       campaign = NewCampaign(st, TargetFilters(1..SoloLeads, {}, skip, "normal"))

SoloOutcomes == {Accepted, Refused(NotOnWhatsAppCode)}

NextSolo ==
  \/ Start
  \/ \E r \in RunIds : LoopCheck(r)
  \/ \E r \in RunIds : SendBegin(r, SoloOutcomes)
  \/ \E r \in RunIds : SendEnd(r)
  \/ \E r \in RunIds : Record(r)
  \/ \E r \in RunIds : Sleep(r)
  \/ \E r \in RunIds : FinalRead(r)
  \/ \E r \in RunIds : FinalWrite(r)

SpecSolo == InitSolo /\ [][NextSolo]_vars

\* The operator starts the campaign, pauses it while the iteration waits
\* between two recipients, resumes it and asks to resend what is pending; the
\* provider answers as in the undisturbed run.
InitPause ==
  /\ InitStore(PauseLeads, 1)
  /\ campaign = NewCampaign("DRAFT", TargetFilters(1..PauseLeads, {}, TRUE, "normal"))

PauseBetweenRecipients ==
  /\ \E r \in RunIds : runs[r].pc = "sleep" /\ runs[r].i < Len(runs[r].leadIds)
  /\ Pause

NextPause ==
  \/ Start
  \/ PauseBetweenRecipients
  \/ Resume
  \/ Resend
  \/ \E r \in RunIds : LoopCheck(r)
  \/ \E r \in RunIds : SendBegin(r, SoloOutcomes)
  \/ \E r \in RunIds : SendEnd(r)
  \/ \E r \in RunIds : Record(r)
  \/ \E r \in RunIds : Sleep(r)
  \/ \E r \in RunIds : FinalRead(r)
  \/ \E r \in RunIds : FinalWrite(r)

SpecPause == InitPause /\ [][NextPause]_vars

\* One iteration at each sending speed, alone on its campaign, against a
\* provider that answers in every way the loop tells apart.
AnyOutcome == ProviderOutcomes \cup {Refused(0), Threw}

InitPace ==
  /\ InitStore(PaceLeads, 1)
  /\ \E speed \in DOMAIN SENDING_SPEEDS :
       campaign = NewCampaign("DRAFT", TargetFilters(1..PaceLeads, {}, TRUE, speed))

NextPace ==
  \/ Start
  \/ \E r \in RunIds : LoopCheck(r)
  \/ \E r \in RunIds : SendBegin(r, AnyOutcome)
  \/ \E r \in RunIds : SendEnd(r)
  \/ \E r \in RunIds : RetryWake(r)
  \/ \E r \in RunIds : Record(r)
  \/ \E r \in RunIds : Sleep(r)
  \/ \E r \in RunIds : FinalRead(r)
  \/ \E r \in RunIds : FinalWrite(r)

SpecPace == InitPace /\ [][NextPace]_vars

\* The campaign started once while incoming messages of its leads, some with
\* an opt-out keyword, reach the webhook; sendCampaignMessage in the two steps
\* its awaits make of it.
InitOptOut ==
  /\ InitStore(OptOutLeads, 1)
  /\ campaign = NewCampaign("DRAFT", TargetFilters(1..OptOutLeads, {}, TRUE, "normal"))

NextOptOut ==
  \/ Start
  \/ WebhookPost
  \/ IncomingMessage
  \/ \E r \in RunIds : LoopCheck(r)
  \/ \E r \in RunIds : LeadLookup(r)
  \/ \E r \in RunIds : ProviderCall(r, SoloOutcomes)
  \/ \E r \in RunIds : SendEnd(r)
  \/ \E r \in RunIds : Record(r)
  \/ \E r \in RunIds : Sleep(r)
  \/ \E r \in RunIds : FinalRead(r)
  \/ \E r \in RunIds : FinalWrite(r)

SpecOptOut == InitOptOut /\ [][NextOptOut]_vars

\* A warmup campaign with one lead more than the daily limit; the operator
\* starts it and resumes it when it is paused.
InitWarmup ==
  /\ InitStore(WarmupLeads, 1)
  /\ campaign = NewCampaign("DRAFT", TargetFilters(1..WarmupLeads, {}, TRUE, "warmup"))

NextWarmup ==
  \/ Start
  \/ Resume
  \/ \E r \in RunIds : LoopCheck(r)
  \/ \E r \in RunIds : LimitPause(r)
  \/ \E r \in RunIds : SendBegin(r, SoloOutcomes)
  \/ \E r \in RunIds : SendEnd(r)
  \/ \E r \in RunIds : Record(r)
  \/ \E r \in RunIds : Sleep(r)
  \/ \E r \in RunIds : FinalRead(r)
  \/ \E r \in RunIds : FinalWrite(r)

SpecWarmup == InitWarmup /\ [][NextWarmup]_vars

\* The campaign started once, with webhook requests of every kind arriving
\* while and after the iteration runs.
NextWebhook ==
  \/ Start
  \/ Dispatch
  \/ WebhookPost
  \/ IgnoredPayload
  \/ MalformedPayload
  \/ StatusUpdate
  \/ IncomingMessage

SpecWebhook == InitHook /\ [][NextWebhook]_vars

\* One iteration against a provider that answers in every way, sends that
\* throw included; the operator starts the campaign and resumes it when it is
\* paused.
NextFailures ==
  \/ Start
  \/ Resume
  \/ \E r \in RunIds : LoopCheck(r)
  \/ \E r \in RunIds : SendBegin(r, AnyOutcome)
  \/ \E r \in RunIds : SendEnd(r)
  \/ \E r \in RunIds : RetryWake(r)
  \/ \E r \in RunIds : Record(r)
  \/ \E r \in RunIds : Sleep(r)
  \/ \E r \in RunIds : FinalRead(r)
  \/ \E r \in RunIds : FinalWrite(r)

InitFailures ==
  /\ InitStore(BreakerLeads, 1)
  /\ campaign = NewCampaign("DRAFT", TargetFilters(1..BreakerLeads, {}, TRUE, "normal"))

SpecFailures == InitFailures /\ [][NextFailures]_vars

\* The operator starts the campaign and pauses it while the iteration is in
\* one of its two waits, the paced delay or the throttle wait, and does not
\* resume it; the provider accepts or throttles.
PauseDuringWait ==
  /\ \E r \in RunIds : runs[r].pc \in {"sleep", "retryWait"}
  /\ Pause

NextWaitPause ==
  \/ Start
  \/ PauseDuringWait
  \/ \E r \in RunIds : LoopCheck(r)
  \/ \E r \in RunIds : SendBegin(r, ThrottledOutcomes)
  \/ \E r \in RunIds : SendEnd(r)
  \/ \E r \in RunIds : RetryWake(r)
  \/ \E r \in RunIds : Record(r)
  \/ \E r \in RunIds : Sleep(r)
  \/ \E r \in RunIds : FinalRead(r)
  \/ \E r \in RunIds : FinalWrite(r)

SpecWaitPause == InitPause /\ [][NextWaitPause]_vars

\* The steps of iteration r against the provider of the undisturbed run.
DispatchSolo(r) ==
  \/ LoopCheck(r)
  \/ SendBegin(r, SoloOutcomes)
  \/ SendEnd(r)
  \/ Record(r)
  \/ Sleep(r)
  \/ FinalRead(r)
  \/ FinalWrite(r)

\* The operator starts the campaign, pauses it between two recipients and
\* resumes it, or not.  The event loop runs the continuation of every await
\* of the iteration (there is one slot) once it is due: an iteration that can
\* step does step.
NextResume ==
  \/ Start
  \/ PauseBetweenRecipients
  \/ Resume
  \/ \E r \in RunIds : LoopCheck(r)
  \/ \E r \in RunIds : SendBegin(r, SoloOutcomes)
  \/ \E r \in RunIds : SendEnd(r)
  \/ \E r \in RunIds : Record(r)
  \/ \E r \in RunIds : Sleep(r)
  \/ \E r \in RunIds : FinalRead(r)
  \/ \E r \in RunIds : FinalWrite(r)

FairResume == WF_vars(\E r \in RunIds : DispatchSolo(r))

SpecResume == InitPause /\ [][NextResume]_vars /\ FairResume

\* The steps of iteration r against a provider that answers in every way.
DispatchAny(r) ==
  \/ LoopCheck(r)
  \/ SendBegin(r, AnyOutcome)
  \/ SendEnd(r)
  \/ RetryWake(r)
  \/ Record(r)
  \/ Sleep(r)
  \/ FinalRead(r)
  \/ FinalWrite(r)

\* The first start of the campaign.
FirstStart == campaign.status \in {"DRAFT", "SCHEDULED"} /\ Start

\* One dispatch run from its launch to its return, with no operator request
\* after the start; the event loop runs every due continuation of the
\* iteration (there is one slot).
NextRun ==
  \/ FirstStart
  \/ \E r \in RunIds : LoopCheck(r)
  \/ \E r \in RunIds : SendBegin(r, AnyOutcome)
  \/ \E r \in RunIds : SendEnd(r)
  \/ \E r \in RunIds : RetryWake(r)
  \/ \E r \in RunIds : Record(r)
  \/ \E r \in RunIds : Sleep(r)
  \/ \E r \in RunIds : FinalRead(r)
  \/ \E r \in RunIds : FinalWrite(r)

FairRun == WF_vars(\E r \in RunIds : DispatchAny(r))

SpecRun == InitFailures /\ [][NextRun]_vars /\ FairRun

\* The operator starts the campaign, pauses it, and asks to resend what is
\* pending and to retry what failed, one iteration at a time; the provider
\* accepts a send or fails it without an error code, and reports the
\* accepted messages delivered and read.
InitCounters ==
  /\ InitStore(NumLeads, 1)
  /\ campaign = NewCampaign("DRAFT", TargetFilters(1..NumLeads, {}, TRUE, "normal"))

PlainOutcomes == {Accepted, Refused(0)}

DeliveryReport == StatusCallback({"delivered", "read"}, {now})

NextCounters ==
  \/ Start
  \/ Pause
  \/ Resend
  \/ RetryFailed
  \/ WebhookPost
  \/ DeliveryReport
  \/ \E r \in RunIds : LoopCheck(r)
  \/ \E r \in RunIds : SendBegin(r, PlainOutcomes)
  \/ \E r \in RunIds : SendEnd(r)
  \/ \E r \in RunIds : Record(r)
  \/ \E r \in RunIds : Sleep(r)
  \/ \E r \in RunIds : FinalRead(r)
  \/ \E r \in RunIds : FinalWrite(r)

SpecCounters == InitCounters /\ [][NextCounters]_vars

\* ------------------------------------------------------------------- claims

\* The edges of the campaign state machine as the specification draws it.
SpecEdges ==
  {<<"DRAFT", "RUNNING">>, <<"SCHEDULED", "RUNNING">>, <<"RUNNING", "PAUSED">>,
   <<"PAUSED", "RUNNING">>, <<"RUNNING", "COMPLETED">>, <<"RUNNING", "CANCELLED">>,
   <<"PAUSED", "CANCELLED">>}

\* C1: under any interleaving of the operator routes and the steps of the
\* dispatch loop, every change of Campaign.status follows an edge of the state
\* machine; in particular COMPLETED and CANCELLED are never left.
C1_StatusFollowsEdges ==
  [][campaign'.status # campaign.status
       => <<campaign.status, campaign'.status>> \in SpecEdges]_vars

C3_Answers ==
  /\ campaign.status = "RUNNING" => PauseResult.error = ""
  /\ campaign.status # "RUNNING"
       => PauseResult.error \in InvalidStateErrors /\ PauseResult.campaign = campaign
  /\ campaign.status = "PAUSED" => ResumeResult.error = ""
  /\ campaign.status # "PAUSED"
       => ResumeResult.error \in InvalidStateErrors /\ ResumeResult.campaign = campaign

\* What a served pause or resume changes.
C3_Effects ==
  /\ Pause => /\ campaign.status = "RUNNING"
              /\ campaign' = [campaign EXCEPT !.status = "PAUSED"]
              /\ UNCHANGED <<leads, campaignLead, messageLog, runs, webhook>>
  /\ Resume => /\ campaign.status = "PAUSED"
               /\ campaign' = [campaign EXCEPT !.status = "RUNNING"]
               /\ UNCHANGED <<leads, campaignLead, messageLog, runs, webhook>>

\* C3: pause is served only on a RUNNING campaign and sets it PAUSED, resume
\* only on a PAUSED one and sets it RUNNING; in every other status the request
\* is rejected and the campaign row left as it is; a served pause or resume
\* changes nothing but the status: no enrollment, no message row, no counter,
\* no lead, and no dispatch iteration is started or stopped.
C3_PauseResume == []C3_Answers /\ [][C3_Effects]_vars

\* An iteration is alive, past its first recipient, on a campaign pause has
\* just set PAUSED.
C3_Witness ==
  /\ campaign.status = "PAUSED"
  /\ \E r \in RunIds : runs[r].pc = "sleep" /\ runs[r].sent = 1

\* C4: every change of an enrollment's status is PENDING -> SENT or
\* PENDING -> FAILED.
C4_EnrollmentNeverRegresses ==
  [][\A l \in Leads :
       (campaignLead[l] # NoRow /\ campaignLead'[l] # campaignLead[l])
         => campaignLead[l] = "PENDING" /\ campaignLead'[l] \in {"SENT", "FAILED"}]_vars

\* The order of the delivery statuses a callback reports.
DeliveryRank(status) ==
  CASE status = "SENT" -> 1 [] status = "DELIVERED" -> 2 [] status = "READ" -> 3
    [] OTHER -> 0

\* C5: no step lowers the status of a message row in the order
\* SENT < DELIVERED < READ, and a FAILED row stays FAILED.
C5_StatusNeverRegresses ==
  [][\A key \in AllLogKeys(messageLog) :
       LET before == Row(messageLog, key).status
           after == Row(messageLog', key).status
       IN /\ before = "FAILED" => after = "FAILED"
          /\ before \in {"SENT", "DELIVERED", "READ"}
               => DeliveryRank(after) >= DeliveryRank(before)]_vars

\* C6: in every reachable store, handling a status callback and then the same
\* callback again leaves the message rows (status and timestamps) and the
\* campaign (its counters) exactly as handling it once does.
C6_StatusUpdateIdempotent ==
  \A id \in ProviderMessageIds, st \in WebhookStatuses, ts \in 1..MaxTime :
    LET once == processStatusUpdate(messageLog, campaign, id, st, ts) IN
    processStatusUpdate(once.messageLog, once.campaign, id, st, ts) = once

\* Callbacks were handled: a row was READ at time 1 and is DELIVERED since
\* time 2, and the counters say so.
C6_Witness ==
  /\ \E key \in AllLogKeys(messageLog) :
       /\ Row(messageLog, key).status = "DELIVERED"
       /\ Row(messageLog, key).deliveredAt = 2
       /\ Row(messageLog, key).readAt = 1
  /\ campaign.deliveredCount = 1
  /\ campaign.readCount = 0

\* Lead l has an OUTBOUND row for the campaign's template that is not FAILED,
\* whichever campaign wrote it.
ReceivedTemplate(l) ==
  \E k \in 1..Len(messageLog[l]) :
    /\ messageLog[l][k].direction = "OUTBOUND"
    /\ messageLog[l][k].templateId = campaign.templateId
    /\ messageLog[l][k].status # "FAILED"

\* The leads handed to the iteration a step launches.
LaunchedLeads ==
  UNION {{runs'[r].leadIds[k] : k \in 1..Len(runs'[r].leadIds)} :
           r \in {q \in RunIds : runs[q].pc = "idle" /\ runs'[q].pc = "check"}}

\* C7: with skipDuplicateTemplate on, a served start leaves the enrollment of a
\* lead that has a non-FAILED OUTBOUND row for the template as it was and does
\* not hand the lead to the iteration it launches; a lead the target selects
\* whose rows for the template are all FAILED (or that has none) is enrolled
\* and handed over.
C7_StartSkipsReceived ==
  [][(Start /\ campaign.targetFilters.skipDuplicateTemplate)
       => /\ \A l \in Leads :
               ReceivedTemplate(l)
                 => campaignLead'[l] = campaignLead[l] /\ l \notin LaunchedLeads
          /\ \A l \in MatchingLeads :
               ~ReceivedTemplate(l)
                 => campaignLead'[l] # NoRow /\ l \in LaunchedLeads]_vars

\* Start has passed over lead 1, which another campaign's delivered message of
\* the template reached, and enrolled lead 2, whose only row for the template
\* is FAILED; the iteration got lead 2 alone.
C7_Witness ==
  /\ campaign.status = "RUNNING"
  /\ messageLog[1] = <<PriorLog(1, ThisTemplate, "DELIVERED")>>
  /\ campaignLead[1] = NoRow
  /\ messageLog[2] = <<PriorLog(2, ThisTemplate, "FAILED")>>
  /\ campaignLead[2] = "PENDING"
  /\ runs[1].leadIds = <<2>>

\* A step in which sendCampaignMessage goes to the provider for some lead: it
\* has created that lead's next message row.
SendInvoked == \E l \in Leads : Len(messageLog'[l]) > Len(messageLog[l])

\* Iteration r takes its step from "record" with the third consecutive
\* throttled recipient.
ThirdThrottle(r) ==
  /\ runs[r].pc = "record"
  /\ runs'[r] # runs[r]
  /\ ~runs[r].success
  /\ runs[r].errorCode = ThrottleCode
  /\ runs[r].consecutiveThrottles + 1 >= CONSECUTIVE_THROTTLE_LIMIT

\* C8: when the third consecutive recipient of an iteration ends throttled,
\* the iteration sets the campaign PAUSED and leaves its loop; and while the
\* campaign is PAUSED (here only the breaker pauses it, and only a resend
\* resumes it) no send goes to the provider and the campaign is not marked
\* COMPLETED.
C8_BreakerStopsCampaign ==
  [][/\ \A r \in RunIds :
          ThirdThrottle(r) => campaign'.status = "PAUSED" /\ runs'[r].pc = "finalRead"
     /\ campaign.status = "PAUSED" => ~SendInvoked
     /\ campaign.status = "PAUSED" => campaign'.status # "COMPLETED"]_vars

\* Iteration r reads the campaign at the top of its loop and stops.
StopsAtCheck(r) == runs[r].pc = "check" /\ runs'[r].pc = "finalRead"

\* Iteration r writes COMPLETED and returns.
MarksCompleted(r) == runs[r].pc = "finalWrite" /\ runs'[r].pc = "idle"

\* C9: an iteration that stops at its status check for recipient i+1 has read
\* PAUSED, with the enrollments of its recipients 1..i out of PENDING and those
\* of i+1.. still PENDING, and it does not go on to mark the campaign COMPLETED
\* over them; a served resend hands its iteration exactly the leads whose
\* enrollment is PENDING, in list order; and no send goes to the provider for
\* a lead whose enrollment is SENT.
C9_PauseThenResend ==
  [][/\ \A r \in RunIds :
          /\ StopsAtCheck(r)
               => /\ campaign.status = "PAUSED"
                  /\ \A k \in 1..Len(runs[r].leadIds) :
                       (k < runs[r].i) <=> (campaignLead[runs[r].leadIds[k]] # "PENDING")
          /\ MarksCompleted(r) => PendingLeads = {}
     /\ Resend => \E r \in RunIds : /\ runs[r].pc = "idle"
                                    /\ runs'[r].leadIds = SortedSeq(PendingLeads)
     /\ \A l \in Leads :
          Len(messageLog'[l]) > Len(messageLog[l]) => campaignLead[l] # "SENT"]_vars

\* The rows of lead l, and whether its one send was accepted.
Attempts(l) == Len(messageLog[l])
Succeeded(l) == Attempts(l) = 1 /\ messageLog[l][1].status = "SENT"
Failures == {l \in Leads : Attempts(l) = 1 /\ messageLog[l][1].status = "FAILED"}

\* C10: in a run nobody disturbs, with sends accepted or refused with 131026:
\* the iteration takes the leads in list order, one send each (behind its
\* position every lead has one row, ahead of it none); once the iteration has
\* returned the campaign is COMPLETED; and then every lead was attempted once,
\* its enrollment is SENT if the send was accepted and FAILED if not, exactly
\* the refused leads are DO_NOT_CONTACT, and sentCount and failedCount are the
\* numbers of accepted and refused sends.
C10_SoloRun ==
  /\ \A r \in RunIds :
       runs[r].pc \in {"check", "send", "inflight", "record", "sleep"}
         => /\ runs[r].leadIds = SortedSeq(Leads)
            /\ \A k \in 1..Len(runs[r].leadIds) :
                 /\ k < runs[r].i => Attempts(runs[r].leadIds[k]) = 1
                 /\ k > runs[r].i => Attempts(runs[r].leadIds[k]) = 0
  /\ (campaign.status \notin {"DRAFT", "SCHEDULED"} /\ FreeRuns = RunIds)
       => campaign.status = "COMPLETED"
  /\ campaign.status = "COMPLETED"
       => /\ \A l \in Leads :
               /\ Attempts(l) = 1
               /\ campaignLead[l] = IF Succeeded(l) THEN "SENT" ELSE "FAILED"
               /\ leads[l].status = "DO_NOT_CONTACT" <=> l \in Failures
          /\ campaign.failedCount = Cardinality(Failures)
          /\ campaign.sentCount = Cardinality(Leads \ Failures)

\* The run is over: the first and third lead got the message, the second was
\* refused.
C10_Witness ==
  /\ campaign.status = "COMPLETED"
  /\ campaignLead = <<"SENT", "FAILED", "SENT">>
  /\ leads[2].status = "DO_NOT_CONTACT"
  /\ campaign.failedCount = 1
  /\ campaign.sentCount = 2

\* C11: an iteration comes to a send only from its status check or from the
\* throttle wait, and to a status check only from the paced delay (or from its
\* launch), so a wait lies between any two of its sends; and each such wait
\* lasts at least the BASE_DELAY of the campaign's sending speed.
C11_WaitsAtLeastBaseDelay ==
  [][\A r \in RunIds :
       /\ (runs'[r].pc = "send" /\ runs[r].pc # "send")
            => runs[r].pc \in {"check", "retryWait"}
       /\ (runs'[r].pc = "check" /\ runs[r].pc # "check")
            => runs[r].pc \in {"sleep", "idle"}
       /\ (runs[r].pc = "sleep" /\ runs'[r].pc # "sleep")
            => runs[r].waitTime >= BASE_DELAY
       /\ (runs[r].pc = "retryWait" /\ runs'[r].pc = "send")
            => runs[r].waitTime >= BASE_DELAY]_vars


\* Iteration r hands a message to the provider in this step.
CallsProvider(r) == runs[r].pc # "inflight" /\ runs'[r].pc = "inflight"

\* C12: no step enrolls a lead whose optedOut flag is set, and no step hands
\* the provider a message for such a lead, whenever the flag was set.
C12_OptedOutNeverSent ==
  [][/\ \A l \in Leads :
          (campaignLead[l] = NoRow /\ campaignLead'[l] # NoRow) => ~leads[l].optedOut
     /\ \A r \in RunIds :
          CallsProvider(r) => ~leads[CurrentLead(r)].optedOut]_vars

\* C13: with a daily limit, an iteration never counts more successful sends
\* than the limit; its status check with the limit reached (and the campaign
\* RUNNING) leads to the pause, which sets the campaign PAUSED, leaves the
\* loop and finds the enrollments of the leads not yet dispatched PENDING; and
\* an iteration whose count has reached the limit does not mark the campaign
\* COMPLETED.
C13_DailyLimitPauses ==
  [][DAILY_LIMIT > 0 =>
       \A r \in RunIds :
         /\ runs'[r].sent <= DAILY_LIMIT
         /\ (/\ runs[r].pc = "check" /\ runs'[r].pc # "check"
             /\ campaign.status = "RUNNING" /\ runs[r].sent >= DAILY_LIMIT)
              => runs'[r].pc = "limitPause"
         /\ (runs[r].pc = "limitPause" /\ runs'[r].pc # "limitPause")
              => /\ campaign'.status = "PAUSED"
                 /\ runs'[r].pc = "finalRead"
                 /\ \A k \in runs[r].i..Len(runs[r].leadIds) :
                      campaignLead'[runs[r].leadIds[k]] = "PENDING"
         /\ MarksCompleted(r) => runs[r].sent < DAILY_LIMIT]_vars

\* C14: in every reachable state a COMPLETED campaign has no PENDING
\* enrollment.
C14_CompletedHasNoPending == campaign.status = "COMPLETED" => PendingLeads = {}

\* C15: whenever the webhook handler is at work on a payload it has already
\* answered 200; the only answer it ever gives is 200; and the step that ends
\* the handling, with the event applied, dropped, or an exception caught,
\* leaves that answer as it is.
C15_AckFirst ==
  /\ [](/\ webhook.pc = "process" => webhook.response = 200
        /\ webhook.response \in {NoResponse, 200})
  /\ [][(webhook.pc = "process" /\ webhook'.pc = "idle")
          => webhook'.response = 200]_vars

\* A request whose processing threw has been answered 200, with a message row
\* in the store.
C15_Witness ==
  /\ webhook.pc = "idle"
  /\ webhook.caught
  /\ webhook.response = 200
  /\ \E key \in AllLogKeys(messageLog) : Row(messageLog, key).status = "SENT"

\* C16: in every reachable store, a status callback for a message id that no
\* row carries leaves the message rows and the campaign as they are and does
\* not throw, whatever its status and timestamp; and no status callback
\* touches a lead, an enrollment or a dispatch iteration.
C16_UnknownIdDropped ==
  /\ [](\A id \in ProviderMessageIds, st \in WebhookStatuses, ts \in Timestamps :
          (\A key \in AllLogKeys(messageLog) : Row(messageLog, key).whatsappMessageId # id)
            => processStatusUpdate(messageLog, campaign, id, st, ts)
                 = [messageLog |-> messageLog, campaign |-> campaign, thrown |-> FALSE])
  /\ [][StatusUpdate => UNCHANGED <<leads, campaignLead, runs>>]_vars

\* A request has been handled without an exception while the provider had
\* accepted a send whose message id no row carries yet.
C16_Witness ==
  /\ webhook.pc = "idle"
  /\ webhook.response = 200
  /\ ~webhook.caught
  /\ \E r \in RunIds :
       /\ runs[r].pc = "inflight"
       /\ runs[r].success
       /\ \A key \in AllLogKeys(messageLog) :
            Row(messageLog, key).whatsappMessageId # runs[r].logKey

\* Iteration r leaves its loop in this step with recipients of its list not
\* yet attempted.
StopsEarly(r) ==
  /\ runs[r].pc \in {"check", "limitPause", "record"}
  /\ runs'[r].pc = "finalRead"
  /\ runs[r].i < Len(runs[r].leadIds) \/ runs[r].pc # "record"

\* C17: the step that records a failed or thrown send marks the enrollment
\* FAILED and, unless it is the third consecutive throttle, goes to the paced
\* delay, after which the loop takes the next recipient; an iteration leaves
\* its loop early only at a status check that read a status other than
\* RUNNING, at the daily limit, or at the third consecutive throttle, and the
\* last two set the campaign PAUSED; no step sets it CANCELLED; and an
\* iteration marks the campaign COMPLETED only when it has attempted every
\* recipient of its list (here the leads start counted in totalLeads).
C17_FailuresDoNotEndRun ==
  [][\A r \in RunIds :
       /\ (runs[r].pc = "record" /\ runs'[r].pc # "record" /\ ~runs[r].success)
            => /\ campaignLead'[CurrentLead(r)] = "FAILED"
               /\ ThirdThrottle(r) \/ runs'[r].pc = "sleep"
       /\ (runs[r].pc = "sleep" /\ runs'[r].pc # "sleep"
             /\ runs[r].i < Len(runs[r].leadIds))
            => runs'[r].pc = "check" /\ runs'[r].i = runs[r].i + 1
       /\ StopsEarly(r)
            => \/ runs[r].pc = "check" /\ campaign.status # "RUNNING"
               \/ runs[r].pc = "limitPause" /\ campaign'.status = "PAUSED"
               \/ ThirdThrottle(r) /\ campaign'.status = "PAUSED"
       /\ campaign'.status # "CANCELLED"
       /\ MarksCompleted(r)
            => runs[r].sent + runs[r].failed = campaign.totalLeads]_vars

\* C18: the status check lets the iteration go on to a send only when it read
\* RUNNING; and, the campaign being paused only while the iteration is in a
\* wait and never resumed, the iteration hands nothing to the provider while
\* the campaign is PAUSED: the read it takes after waking stops it, after the
\* paced delay and after the throttle wait alike.
C18_PauseInWaitStopsNextSend ==
  [][\A r \in RunIds :
       /\ (runs[r].pc = "check" /\ runs'[r].pc = "send") => campaign.status = "RUNNING"
       /\ campaign.status = "PAUSED" => ~CallsProvider(r)]_vars

C20_RetryWaitLongerThanBaseDelay ==
  \A r \in RunIds : runs[r].pc = "retryWait" => runs[r].waitTime > BASE_DELAY

\* The lifecycle timestamps of a message row (0: not written).
LifecycleTimestamps == {"sentAt", "deliveredAt", "readAt", "failedAt"}

\* C21: no step writes a lifecycle timestamp of a message row that already
\* carries one, whether the step is the loop's update after the send or a
\* status callback; and in every reachable store the timestamps a row carries
\* satisfy sentAt <= deliveredAt <= readAt.
C21_TimestampsWrittenOnce ==
  /\ [][\A key \in AllLogKeys(messageLog), f \in LifecycleTimestamps :
          Row(messageLog, key)[f] # 0 => Row(messageLog', key)[f] = Row(messageLog, key)[f]]_vars
  /\ [](\A key \in AllLogKeys(messageLog) :
          LET row == Row(messageLog, key) IN
          /\ (row.sentAt # 0 /\ row.deliveredAt # 0) => row.sentAt <= row.deliveredAt
          /\ (row.deliveredAt # 0 /\ row.readAt # 0) => row.deliveredAt <= row.readAt
          /\ (row.sentAt # 0 /\ row.readAt # 0) => row.sentAt <= row.readAt)

\* No dispatch iteration is alive and no webhook request is being served.
Quiescent == FreeRuns = RunIds /\ webhook.pc = "idle"

\* C22: whenever no dispatch iteration and no webhook handler is at work, the
\* four counters of the campaign are the numbers of its message rows by
\* status: sentCount the rows SENT, DELIVERED or READ, deliveredCount the rows
\* DELIVERED or READ, readCount the rows READ, failedCount the rows FAILED.
C22_CountersMatchLedger ==
  Quiescent
    => /\ campaign.sentCount = StatusCount(messageLog, ThisCampaign, {"SENT", "DELIVERED", "READ"})
       /\ campaign.deliveredCount = StatusCount(messageLog, ThisCampaign, {"DELIVERED", "READ"})
       /\ campaign.readCount = StatusCount(messageLog, ThisCampaign, {"READ"})
       /\ campaign.failedCount = StatusCount(messageLog, ThisCampaign, {"FAILED"})

\* C23: a status callback leaves sentCount and failedCount of the campaign as
\* they were (it may change deliveredCount and readCount only); a step of a
\* dispatch iteration leaves deliveredCount and readCount as they were and
\* does not lower sentCount or failedCount.
C23_WritersDoNotClobber ==
  [][/\ StatusUpdate => /\ campaign'.sentCount = campaign.sentCount
                        /\ campaign'.failedCount = campaign.failedCount
     /\ Dispatch => /\ campaign'.deliveredCount = campaign.deliveredCount
                    /\ campaign'.readCount = campaign.readCount
                    /\ campaign'.sentCount >= campaign.sentCount
                    /\ campaign'.failedCount >= campaign.failedCount]_vars

\* The dispatch iterations that have been launched and have not returned.
ActiveRuns == RunIds \ FreeRuns

\* C24: in every reachable state at most one dispatch iteration of the
\* campaign is alive, and at most one has a provider send in flight.
C24_OneIterationPerCampaign ==
  /\ Cardinality(ActiveRuns) <= 1
  /\ Cardinality({r \in RunIds : runs[r].pc = "inflight"}) <= 1

\* The followed texts that contain an opt-out keyword when case is ignored:
\* "STOP", "Pls Unsubscribe", "Opt Out" and the first Hindi keyword.
TextsWithOptOutKeyword ==
  {<<"S", "T", "O", "P">>,
   <<"P", "l", "s", " ", "U", "n", "s", "u", "b", "s", "c", "r", "i", "b", "e">>,
   <<"O", "p", "t", " ", "O", "u", "t">>,
   <<"U+0930", "U+094B", "U+0915", "U+0947", "U+0902">>}

\* C25: in every reachable store, for every incoming message: from a sender
\* no lead has, nothing changes; from a lead with a text that contains an
\* opt-out keyword, the lead's optedOut flag and optedOutAt are set and the
\* message rows stay as they are; from a lead with any other text, exactly
\* one INBOUND row of that lead is added and the leads stay as they are.
C25_IncomingMessage ==
  \A from \in Leads \cup {UnknownSender}, content \in InboundTexts :
    \A id \in InboundMessageIds(from) :
      LET after == processIncomingMessage(leads, messageLog, from, id, content, now) IN
      /\ from \notin Leads
           => after.leads = leads /\ after.messageLog = messageLog
      /\ (from \in Leads /\ content \in TextsWithOptOutKeyword)
           => /\ after.leads[from].optedOut
              /\ after.leads[from].optedOutAt = now
              /\ after.messageLog = messageLog
      /\ (from \in Leads /\ content \notin TextsWithOptOutKeyword)
           => /\ after.leads = leads
              /\ Len(after.messageLog[from]) = Len(messageLog[from]) + 1
              /\ after.messageLog[from][Len(messageLog[from]) + 1].direction = "INBOUND"
              /\ \A l \in Leads \ {from} : after.messageLog[l] = messageLog[l]

\* Iteration r writes the result of its send on the message row in this step.
PostSendUpdate(r) ==
  runs[r].pc = "inflight" /\ runs'[r].pc # "inflight" /\ ~runs[r].thrown

\* C26: the row an iteration updates after its send is still as the
\* iteration created it, PENDING and without a message id; a status callback
\* changes only a row that carries a message id; and no step of an iteration
\* replaces a DELIVERED or READ status by SENT.
C26_PostSendKeepsCallbacks ==
  [][/\ \A r \in RunIds :
          PostSendUpdate(r)
            => /\ Row(messageLog, runs[r].logKey).status = "PENDING"
               /\ Row(messageLog, runs[r].logKey).whatsappMessageId = NoMessageId
     /\ \A key \in AllLogKeys(messageLog) :
          /\ (StatusUpdate /\ Row(messageLog', key) # Row(messageLog, key))
               => Row(messageLog, key).whatsappMessageId # NoMessageId
          /\ (Dispatch /\ Row(messageLog, key).status \in {"DELIVERED", "READ"})
               => Row(messageLog', key).status # "SENT"]_vars

\* A callback has set the row DELIVERED, under the message id the iteration
\* wrote, before the iteration has recorded the send in the enrollment.
C26_Witness ==
  \E r \in RunIds :
    /\ runs[r].pc = "record"
    /\ runs[r].success
    /\ Row(messageLog, runs[r].logKey).status = "DELIVERED"
    /\ Row(messageLog, runs[r].logKey).whatsappMessageId = runs[r].logKey

\* The rows of lead l in this campaign that the provider accepted.
AcceptedRows(l) ==
  {k \in 1..Len(messageLog[l]) :
     /\ messageLog[l][k].campaignId = ThisCampaign
     /\ messageLog[l][k].status \in {"SENT", "DELIVERED", "READ"}}

\* C27: no step hands the provider a message for a lead whose enrollment in
\* the campaign is SENT, and in every reachable store a lead has at most one
\* row of the campaign that reached SENT, DELIVERED or READ.
C27_NoSendToSentLead ==
  /\ [][\A r \in RunIds : CallsProvider(r) => campaignLead[CurrentLead(r)] # "SENT"]_vars
  /\ [](\A l \in Leads : Cardinality(AcceptedRows(l)) <= 1)

\* C28: whenever the campaign is RUNNING with a PENDING enrollment, it is
\* eventually PAUSED or COMPLETED with no enrollment left PENDING; an operator
\* who has resumed the campaign need not do anything more for that.
C28_ResumedCampaignProgresses ==
  (campaign.status = "RUNNING" /\ PendingLeads # {})
    ~> \/ campaign.status = "PAUSED"
       \/ campaign.status = "COMPLETED" /\ PendingLeads = {}

\* C29: a dispatch iteration that is alive eventually returns, whatever the
\* provider answers (a throttle on every attempt and sends that throw
\* included); and once it has returned, no operator request having followed
\* the start, the campaign is COMPLETED or PAUSED.
C29_RunTerminates ==
  /\ (ActiveRuns # {}) ~> (ActiveRuns = {})
  /\ []((ActiveRuns = {} /\ campaign.status \notin {"DRAFT", "SCHEDULED"})
          => campaign.status \in {"COMPLETED", "PAUSED"})

\* The run is over and the circuit breaker has paused the campaign: the send
\* to the first lead threw (its row is still PENDING, its enrollment FAILED)
\* and the next three leads were throttled on the attempt and on the retry.
C29_Witness ==
  /\ ActiveRuns = {}
  /\ campaign.status = "PAUSED"
  /\ messageLog[1][1].status = "PENDING"
  /\ campaignLead[1] = "FAILED"
  /\ \A l \in 2..4 : Len(messageLog[l]) = 2 /\ campaignLead[l] = "FAILED"

\* C30: in every reachable state the counters of the campaign satisfy
\* readCount <= deliveredCount <= sentCount.
C30_CountersOrdered ==
  /\ campaign.readCount <= campaign.deliveredCount
  /\ campaign.deliveredCount <= campaign.sentCount

====
